---- MODULE Spec2Model ----
(***************************************************************************)
(* Model of doFetch (src/fetch.js): one authenticated HTTP call with       *)
(* structured error handling and bounded retry, together with the call     *)
(* sites of AzureAPI (src/azure-api.js) that the properties refer to.      *)
(*                                                                         *)
(* A logical call c is a stack of doFetch activations (frames[c]): the     *)
(* retry of line 56 is a recursive call whose promise the outer            *)
(* activation returns.  pc[c] is the suspension point of the innermost     *)
(* activation.  The transport (the global fetch) is the environment: it    *)
(* answers each invocation with a response or with a thrown value.         *)
(***************************************************************************)
EXTENDS Integers, Sequences, FiniteSets, TLC

VARIABLES
  frames,          \* frames[c]: the argument records of the nested doFetch activations
  pc,              \* pc[c]: suspension point of the innermost activation
  response,        \* response[c]: the Response the innermost activation holds
  hist,            \* hist[c]: what the transport answered, one entry per invocation
  lastRequest,     \* lastRequest[c]: the request handed to the transport last
  transportCalls,  \* transportCalls[c]: number of transport invocations
  delays,          \* delays[c]: number of elapsed retry timers
  waited,          \* waited[c]: milliseconds spent in retry timers
  decodes,         \* decodes[c]: body readers called on successful responses
  outcome          \* outcome[c]: settlement of the innermost settled activation

vars == <<frames, pc, response, hist, lastRequest, transportCalls, delays,
          waited, decodes, outcome>>

----------------------------------------------------------------------------
(* Bounds of the model *)

MaxRetry == 2

MaxRetryConc == 1

(* Program constants *)

RetryDelayMs == 500

----------------------------------------------------------------------------
(* Values *)

Calls == {1, 2}

LabelsUrl ==
  "https://dev.azure.com/org/proj/_apis/git/repositories/r/pullrequests/7/labels?api-version=7.0"

RepositoryUrl == "https://dev.azure.com/org/proj/_apis/git/repositories/r"

Urls == {LabelsUrl, RepositoryUrl}

Undefined == "undefined"

Pats == {"", "OnRva2Vu"}

LabelBody == "{name:'bug'}"

BodyJson == "{\"name\":\"bug\",\"active\":true}"

BodyText == "Service Unavailable"

Statuses == {201, 304, 400, 499, 500}

(* A response body as the transport delivers it: its text, and whether the
   body stream can be read to the end. *)
ResponseBodies ==
  { [text |-> BodyJson, streamOk |-> TRUE],
    [text |-> BodyText, streamOk |-> TRUE],
    [text |-> "",       streamOk |-> FALSE] }

NoHeaders == [n \in {} |-> << >>]

(* The headers argument as the caller writes it: header name -> value.  A
   value is the sequence of the parts of its text. *)
HeaderInits ==
  { NoHeaders,
    ("X-Trace" :> <<"abc">>),
    ("Content-Type" :> <<"application/xml">>) @@ ("X-Trace" :> <<"abc">>)
       @@ ("authorization" :> <<"Bearer t">>) }

NoResponse == [id |-> 0, status |-> 0, text |-> "", streamOk |-> FALSE, bodyUsed |-> FALSE]

NoValue == [type |-> "none", text |-> "", fields |-> {}]

NoOutcome == [kind |-> "none", response |-> NoResponse, message |-> << >>, value |-> NoValue]

NoRequest == [url |-> "", method |-> "", headers |-> NoHeaders, body |-> Undefined]

(* Mutant: the options live in one module-level variable shared by the calls
   in flight; it holds the options of the highest-numbered started call. *)
Top_Shared(c) ==
  LET d == CHOOSE x \in {e \in DOMAIN frames : frames[e] # << >>} :
             \A e \in DOMAIN frames : frames[e] # << >> => e <= x
  IN frames[d][Len(frames[d])]

(* The options of the innermost activation of call c (line 18) *)
Top(c) == frames[c][Len(frames[c])]

----------------------------------------------------------------------------
(* Headers *)

(* Headers keeps header names in lower case. *)
Lower(name) ==
  CASE name = "X-Trace"       -> "x-trace"
    [] name = "Content-Type"  -> "content-type"
    [] name = "Authorization" -> "authorization"
    [] name = "Accept"        -> "accept"
    [] OTHER                  -> name

(* Mutant: the Headers object is built without the caller's headers. *)
NewHeaders_Empty(init) == NoHeaders

(* new Headers(headers) *)
NewHeaders(init) ==
  [n \in {Lower(k) : k \in DOMAIN init} |->
      init[CHOOSE k \in DOMAIN init : Lower(k) = n]]

(* requestHeaders.set(name, value) *)
HeadersSet(h, name, value) ==
  [n \in (DOMAIN h) \cup {Lower(name)} |-> IF n = Lower(name) THEN value ELSE h[n]]

(* JavaScript truthiness of the string-like values the model uses *)
Truthy(v) == v # Undefined /\ v # ""

AuthorizationValue(pat) == IF Truthy(pat) THEN <<"Basic ", pat>> ELSE <<"">>

ContentType(json) == IF json THEN <<"application/json">> ELSE <<"text/plain">>

RequestHeaders(a) ==
  HeadersSet(
    HeadersSet(
      HeadersSet(NewHeaders(a.headers), "Authorization", AuthorizationValue(a.pat)),
      "Accept", ContentType(a.json)),
    "Content-Type", ContentType(a.json))

(* JSON.stringify(body) *)
JSONStringify(body) ==
  CASE body = LabelBody -> "{\"name\":\"bug\"}"
    [] OTHER            -> Undefined

(* The request of lines 28-32 *)
Request(a) ==
  [ url     |-> a.url,
    method  |-> a.method,
    headers |-> RequestHeaders(a),
    body    |-> IF Truthy(a.body) THEN JSONStringify(a.body) ELSE Undefined ]

----------------------------------------------------------------------------
(* Responses and their body readers *)

(* response.ok *)
Ok(status) == status >= 200 /\ status <= 299

(* JSON.parse of a body text: the decoded value, or no value when the text
   is not JSON. *)
JSONParse(text) ==
  CASE text = BodyJson ->
         [ok |-> TRUE,
          value |-> [type |-> "object", text |-> "",
                     fields |-> {<<"name", "bug">>, <<"active", "true">>}]]
    [] OTHER -> [ok |-> FALSE, value |-> NoValue]

(* The settlement of the promise response.text() returns *)
ResponseText(r) ==
  IF r.streamOk
  THEN [NoOutcome EXCEPT !.kind = "payload",
                         !.value = [type |-> "string", text |-> r.text, fields |-> {}]]
  ELSE [NoOutcome EXCEPT !.kind = "TypeError", !.message = <<"terminated">>]

(* The settlement of the promise response.json() returns *)
ResponseJson(r) ==
  IF ~r.streamOk
  THEN [NoOutcome EXCEPT !.kind = "TypeError", !.message = <<"terminated">>]
  ELSE IF JSONParse(r.text).ok
  THEN [NoOutcome EXCEPT !.kind = "payload", !.value = JSONParse(r.text).value]
  ELSE [NoOutcome EXCEPT !.kind = "SyntaxError",
                         !.message = <<"Unexpected token in JSON">>]

(* Mutant: the body is always read as text. *)
Decode_AlwaysText(json, r) == ResponseText(r)

(* Line 48: the body reader the json flag selects *)
Decode(json, r) == IF json THEN ResponseJson(r) ELSE ResponseText(r)

(* Lines 35-38: the body text of a failed response, read best-effort *)
ResponseTextOrUndefined(r) == IF r.streamOk THEN r.text ELSE Undefined

----------------------------------------------------------------------------
(* Failures *)

(* What the transport may throw instead of answering: an Error (network,
   DNS, TLS), or a value that is no Error. *)
TransportThrows ==
  { [NoOutcome EXCEPT !.kind = "TypeError", !.message = <<"fetch failed">>],
    [NoOutcome EXCEPT !.kind = "thrown",    !.message = <<"aborted">>] }

(* err instanceof FetchError *)
IsFetchError(err) == err.kind = "FetchError"

(* err instanceof Error *)
IsError(err) == err.kind \in {"FetchError", "Error", "TypeError", "SyntaxError"}

(* Lines 40-43: new FetchError(message, response) *)
NewFetchError(url, r) ==
  [NoOutcome EXCEPT
     !.kind = "FetchError",
     !.response = r,
     !.message = <<"Fetch for ", url, " failed. Received status code ",
                   ToString(r.status), ". Body: ", ResponseTextOrUndefined(r)>>]

(* Line 68: new Error(`Fetch for ${url} failed: ${err.message}`) *)
WrapError(url, err) ==
  [NoOutcome EXCEPT !.kind = "Error",
                    !.message = <<"Fetch for ", url, " failed: ">> \o err.message]

(* Mutant: the lower end of the client-error range is excluded. *)
ShouldRethrow_Above400(err, retryCount) ==
  (err.response.status > 400 /\ err.response.status < 500) \/ retryCount = 0

(* Line 51: the condition under which a FetchError is thrown on to the caller *)
ShouldRethrow(err, retryCount) ==
  (err.response.status >= 400 /\ err.response.status < 500) \/ retryCount = 0

(* Mutant: the retrying call gets the retry count it was called with. *)
RetryArgs_NoDecrement(a) == a

(* Mutant: the retrying call is made without the parse option. *)
RetryArgs_DropParse(a) == [a EXCEPT !.retryCount = @ - 1, !.parse = TRUE]

(* Mutant: the retrying call is made without the json option. *)
RetryArgs_DropJson(a) == [a EXCEPT !.retryCount = @ - 1, !.json = FALSE]

(* Mutant: the retrying call is handed the composed requestHeaders. *)
RetryArgs_ComposedHeaders(a) ==
  [a EXCEPT !.retryCount = @ - 1, !.headers = RequestHeaders(a)]

(* Lines 56-64: the arguments of the retrying call *)
RetryArgs(a) ==
  [ url        |-> a.url,
    pat        |-> a.pat,
    method     |-> a.method,
    headers    |-> a.headers,
    body       |-> a.body,
    json       |-> a.json,
    parse      |-> a.parse,
    retryCount |-> a.retryCount - 1 ]

(* Lines 66-70: what the catch block throws for an error that is no FetchError *)
CatchOther(url, err) == IF IsError(err) THEN WrapError(url, err) ELSE err

(* Mutant: the retrying call is awaited inside the try block, so what it
   throws is caught again. *)
ReturnRetry_Recaught(a, inner) ==
  IF inner.kind \in {"payload", "response"} THEN inner ELSE CatchOther(a.url, inner)

(* Line 56: the activation returns the retrying call's promise from inside
   the catch block, so it settles exactly as that call settles. *)
ReturnRetry(a, inner) == inner

----------------------------------------------------------------------------
(* Call sites *)

(* Calls of doFetch with explicit options *)
DirectArgs(maxRetry) ==
  [ url        : Urls,
    pat        : Pats,
    method     : {"GET"},
    headers    : HeaderInits,
    body       : {Undefined},
    json       : BOOLEAN,
    parse      : BOOLEAN,
    retryCount : 0..maxRetry ]

(* The default option values of line 18 *)
Defaults ==
  [ url |-> "", pat |-> "", method |-> "GET", headers |-> NoHeaders, body |-> Undefined,
    json |-> FALSE, parse |-> TRUE, retryCount |-> 0 ]

(* pullrequests.addLabel *)
addLabel(pat, url) ==
  [Defaults EXCEPT !.url = url, !.pat = pat, !.json = TRUE, !.method = "POST",
                   !.body = LabelBody]

(* pullrequests.deleteLabel *)
deleteLabel(pat, url) ==
  [Defaults EXCEPT !.url = url, !.pat = pat, !.json = TRUE, !.parse = FALSE,
                   !.method = "DELETE"]

ClientArgs ==
  {addLabel(p, u) : p \in Pats \ {""}, u \in Urls}
    \cup {deleteLabel(p, u) : p \in Pats \ {""}, u \in Urls}

(* addLabel with a retry count, as in the POST-a-label scenario *)
RetryingPost ==
  {[addLabel(p, u) EXCEPT !.retryCount = n] : p \in Pats \ {""}, u \in Urls, n \in 1..MaxRetry}

SoloArgs == DirectArgs(MaxRetry) \cup ClientArgs \cup RetryingPost

ConcArgs ==
  {a \in DirectArgs(MaxRetryConc) :
     a.url = LabelsUrl /\ a.headers = NoHeaders /\ a.pat # "" /\ a.json}

----------------------------------------------------------------------------
(* State machine *)

Init ==
  /\ frames = [c \in Calls |-> << >>]
  /\ pc = [c \in Calls |-> "idle"]
  /\ response = [c \in Calls |-> NoResponse]
  /\ hist = [c \in Calls |-> << >>]
  /\ lastRequest = [c \in Calls |-> NoRequest]
  /\ transportCalls = [c \in Calls |-> 0]
  /\ delays = [c \in Calls |-> 0]
  /\ waited = [c \in Calls |-> 0]
  /\ decodes = [c \in Calls |-> 0]
  /\ outcome = [c \in Calls |-> NoOutcome]

(* Lines 20-32: an activation runs up to `await fetch(...)`: it composes the
   headers and hands the request to the transport. *)
Enter(c, a) ==
  /\ lastRequest' = [lastRequest EXCEPT ![c] = Request(a)]
  /\ transportCalls' = [transportCalls EXCEPT ![c] = @ + 1]
  /\ pc' = [pc EXCEPT ![c] = "awaitFetch"]

(* A caller invokes doFetch(url, options). *)
doFetch(c, a) ==
  /\ pc[c] = "idle"
  /\ frames' = [frames EXCEPT ![c] = <<a>>]
  /\ Enter(c, a)
  /\ UNCHANGED <<response, hist, delays, waited, decodes, outcome>>

(* Lines 28, 34-48: the transport answers with a response. *)
FetchResolves(c) ==
  /\ pc[c] = "awaitFetch"
  /\ \E st \in Statuses, b \in ResponseBodies :
       LET r == [id |-> transportCalls[c], status |-> st, text |-> b.text,
                 streamOk |-> b.streamOk, bodyUsed |-> FALSE]
           a == Top(c)
       IN /\ hist' = [hist EXCEPT ![c] = Append(@, [kind |-> "response", status |-> st])]
          /\ IF ~Ok(r.status)
             THEN \* line 37: response.text() is called and awaited
                  /\ response' = [response EXCEPT ![c] = [r EXCEPT !.bodyUsed = TRUE]]
                  /\ pc' = [pc EXCEPT ![c] = "awaitErrText"]
                  /\ UNCHANGED <<decodes, outcome>>
             ELSE IF ~a.parse
             THEN \* line 46: the response itself is returned
                  /\ response' = [response EXCEPT ![c] = r]
                  /\ outcome' = [outcome EXCEPT ![c] =
                                   [NoOutcome EXCEPT !.kind = "response", !.response = r]]
                  /\ pc' = [pc EXCEPT ![c] = "settled"]
                  /\ UNCHANGED decodes
             ELSE \* line 48: a body reader is called and its promise returned
                  /\ response' = [response EXCEPT ![c] = [r EXCEPT !.bodyUsed = TRUE]]
                  /\ decodes' = [decodes EXCEPT ![c] = @ + 1]
                  /\ pc' = [pc EXCEPT ![c] = "awaitDecode"]
                  /\ UNCHANGED outcome
  /\ UNCHANGED <<frames, lastRequest, transportCalls, delays, waited>>

(* Lines 28, 49, 66-70: the transport throws; the catch block rethrows. *)
FetchRejects(c) ==
  /\ pc[c] = "awaitFetch"
  /\ \E e \in TransportThrows :
       /\ hist' = [hist EXCEPT ![c] =
                     Append(@, [kind |-> IF IsError(e) THEN "throwError" ELSE "throwOther",
                                status |-> 0])]
       /\ outcome' = [outcome EXCEPT ![c] = CatchOther(Top(c).url, e)]
  /\ pc' = [pc EXCEPT ![c] = "settled"]
  /\ UNCHANGED <<frames, response, lastRequest, transportCalls, delays, waited, decodes>>

(* Lines 37-55: the body text of the failed response has been read (or not);
   the FetchError is thrown and caught; it is thrown on, or the retry timer
   is started. *)
ErrTextSettles(c) ==
  /\ pc[c] = "awaitErrText"
  /\ LET err == NewFetchError(Top(c).url, response[c])
     IN IF ShouldRethrow(err, Top(c).retryCount)
        THEN /\ outcome' = [outcome EXCEPT ![c] = err]
             /\ pc' = [pc EXCEPT ![c] = "settled"]
        ELSE /\ pc' = [pc EXCEPT ![c] = "delay"]
             /\ UNCHANGED outcome
  /\ UNCHANGED <<frames, response, hist, lastRequest, transportCalls, delays, waited, decodes>>

(* Lines 55-64: the timer fires and doFetch is called again. *)
TimerFires(c) ==
  /\ pc[c] = "delay"
  /\ delays' = [delays EXCEPT ![c] = @ + 1]
  /\ waited' = [waited EXCEPT ![c] = @ + RetryDelayMs]
  /\ frames' = [frames EXCEPT ![c] = Append(@, RetryArgs(Top(c)))]
  /\ Enter(c, RetryArgs(Top(c)))
  /\ UNCHANGED <<response, hist, decodes, outcome>>

(* Line 48: the promise of the body reader settles, and the activation with it. *)
DecodeSettles(c) ==
  /\ pc[c] = "awaitDecode"
  /\ outcome' = [outcome EXCEPT ![c] = Decode(Top(c).json, response[c])]
  /\ pc' = [pc EXCEPT ![c] = "settled"]
  /\ UNCHANGED <<frames, response, hist, lastRequest, transportCalls, delays, waited, decodes>>

(* Line 56: the retrying call has settled; the activation that returned its
   promise settles with it. *)
RetrySettles(c) ==
  /\ pc[c] = "settled"
  /\ Len(frames[c]) > 1
  /\ outcome' = [outcome EXCEPT ![c] = ReturnRetry(frames[c][Len(frames[c]) - 1], @)]
  /\ frames' = [frames EXCEPT ![c] = SubSeq(@, 1, Len(@) - 1)]
  /\ UNCHANGED <<pc, response, hist, lastRequest, transportCalls, delays, waited, decodes>>

Step(c) ==
  \/ FetchResolves(c)
  \/ FetchRejects(c)
  \/ ErrTextSettles(c)
  \/ TimerFires(c)
  \/ DecodeSettles(c)
  \/ RetrySettles(c)

(* One logical call *)
Next ==
  \/ \E a \in SoloArgs : doFetch(1, a)
  \/ Step(1)

Spec == Init /\ [][Next]_vars

(* Concurrent logical calls *)
NextConc ==
  \E c \in Calls :
    \/ \E a \in ConcArgs : doFetch(c, a)
    \/ Step(c)

SpecConc == Init /\ [][NextConc]_vars

(* The logical call c has settled for its caller. *)
Done(c) == pc[c] = "settled" /\ Len(frames[c]) = 1

(* The arguments the caller passed *)
Args(c) == frames[c][1]

----------------------------------------------------------------------------
(* Properties *)

Started(c) == frames[c] # << >>

Answered(c) == Len(hist[c]) >= 1

LastAnswer(c) == hist[c][Len(hist[c])]

IsResponse(h) == h.kind = "response"

(* C1: a call whose first response has a status in [400,500) raises the
   FetchError carrying that response on the first attempt, whatever
   retryCount is: the transport is invoked exactly once, no retry delay is
   taken and no second attempt is made. *)
C1_ClientErrorRaisedAtOnce ==
  \A c \in Calls :
    (Answered(c) /\ IsResponse(hist[c][1])
       /\ hist[c][1].status >= 400 /\ hist[c][1].status < 500)
    => /\ transportCalls[c] = 1
       /\ Len(hist[c]) = 1
       /\ Len(frames[c]) = 1
       /\ delays[c] = 0
       /\ waited[c] = 0
       /\ pc[c] \in {"awaitErrText", "settled"}
       /\ pc[c] = "settled" =>
            /\ outcome[c].kind = "FetchError"
            /\ outcome[c].response.id = 1
            /\ outcome[c].response.status = hist[c][1].status

C1_Witness ==
  /\ Done(1)
  /\ Args(1).retryCount = MaxRetry
  /\ hist[1] = <<[kind |-> "response", status |-> 499]>>
  /\ outcome[1].kind = "FetchError"

(* C2: with retryCount = N the call is over after at most N+1 transport
   invocations (no retry timer runs once N+1 invocations are made, and a call
   that is not over always has a next step); with N = 0 and a status >= 500 exactly one invocation occurs;
   when all N+1 attempts fail with a status >= 500 the failure raised is the
   FetchError of attempt N+1. *)
C2_BoundedAttempts ==
  \A c \in Calls :
    Started(c) =>
      LET N == Args(c).retryCount
      IN /\ transportCalls[c] <= N + 1
         /\ pc[c] = "delay" => transportCalls[c] <= N
         /\ ~Done(c) => ENABLED Step(c)
         /\ (N = 0 /\ Answered(c) /\ hist[c][1].status >= 500) =>
               /\ transportCalls[c] = 1
               /\ pc[c] # "delay"
         /\ (/\ Len(hist[c]) = N + 1
             /\ \A i \in 1..(N + 1) : IsResponse(hist[c][i]) /\ hist[c][i].status >= 500
             /\ pc[c] = "settled")
            => /\ outcome[c].kind = "FetchError"
               /\ outcome[c].response.id = N + 1
               /\ outcome[c].response.status = hist[c][N + 1].status

C2_Witness ==
  /\ Done(1)
  /\ Args(1).retryCount = MaxRetry
  /\ transportCalls[1] = MaxRetry + 1
  /\ \A i \in 1..Len(hist[1]) : hist[1][i].status = 500
  /\ outcome[1].kind = "FetchError"
  /\ outcome[1].response.id = MaxRetry + 1

(* C3: a transport-level exception (the transport throws an Error) is never
   retried, on whichever attempt it occurs and whatever retry count remains:
   no transport invocation follows it, and the caller receives a generic
   Error (no FetchError) whose message holds the URL and the underlying
   message, wrapped exactly once. *)
C3_TransportErrorNotRetried ==
  \A c \in Calls :
    \A i \in 1..Len(hist[c]) :
      hist[c][i].kind = "throwError" =>
        /\ i = Len(hist[c])
        /\ transportCalls[c] = i
        /\ pc[c] = "settled"
        /\ outcome[c].kind = "Error"
        /\ outcome[c].message = <<"Fetch for ", Args(c).url, " failed: ", "fetch failed">>

C3_Witness ==
  /\ Done(1)
  /\ Args(1).retryCount = MaxRetry
  /\ Len(hist[1]) = 2
  /\ hist[1][2].kind = "throwError"
  /\ outcome[1].kind = "Error"

(* C4, as claimed: a response with a status in [200,300) (parse true) makes
   doFetch return a payload consistent with the json flag, and it never
   raises, also when decoding the body fails. *)
C4_Claimed_NeverRaises ==
  \A c \in Calls :
    (Done(c) /\ Args(c).parse /\ IsResponse(LastAnswer(c)) /\ Ok(LastAnswer(c).status))
    => /\ outcome[c].kind = "payload"
       /\ outcome[c].value.type = (IF Args(c).json THEN "object" ELSE "string")

(* C4, amended: a response with a status in [200,300) (parse true) makes
   doFetch return the payload decoded as the json flag says when the body
   decodes; when decoding fails, the decoding error is raised to the caller
   as it is, neither wrapped nor retried. *)
C4_DecodedOrDecodeError ==
  \A c \in Calls :
    (Done(c) /\ Args(c).parse /\ IsResponse(LastAnswer(c)) /\ Ok(LastAnswer(c).status))
    => LET r == response[c]
       IN /\ r.id = Len(hist[c])
          /\ r.id = transportCalls[c]
          /\ IF ~r.streamOk
             THEN outcome[c].kind = "TypeError" /\ outcome[c].message = <<"terminated">>
             ELSE IF ~Args(c).json
             THEN /\ outcome[c].kind = "payload"
                  /\ outcome[c].value = [type |-> "string", text |-> r.text, fields |-> {}]
             ELSE IF r.text = BodyJson
             THEN /\ outcome[c].kind = "payload"
                  /\ outcome[c].value.type = "object"
                  /\ outcome[c].value.fields = {<<"name", "bug">>, <<"active", "true">>}
             ELSE /\ outcome[c].kind = "SyntaxError"
                  /\ outcome[c].message = <<"Unexpected token in JSON">>

C4_Witness ==
  /\ Done(1)
  /\ Args(1).parse /\ Args(1).json
  /\ hist[1] = <<[kind |-> "response", status |-> 201]>>
  /\ response[1].text = BodyText
  /\ outcome[1].kind = "SyntaxError"

(* C5: a call with parse:false never decodes the body of a successful
   response: on the attempt that succeeds, the first or a later one, no body
   reader is called and the response is returned with its body unconsumed,
   whatever json is. *)
C5_ParseFalseNeverDecodes ==
  \A c \in Calls :
    (Started(c) /\ ~Args(c).parse) =>
      /\ decodes[c] = 0
      /\ pc[c] # "awaitDecode"
      /\ (pc[c] = "settled" /\ IsResponse(LastAnswer(c)) /\ Ok(LastAnswer(c).status)) =>
           /\ outcome[c].kind = "response"
           /\ outcome[c].response.id = transportCalls[c]
           /\ outcome[c].response.status = LastAnswer(c).status
           /\ ~outcome[c].response.bodyUsed
           /\ ~response[c].bodyUsed

C5_Witness ==
  /\ Done(1)
  /\ ~Args(1).parse /\ Args(1).json
  /\ hist[1] = <<[kind |-> "response", status |-> 500], [kind |-> "response", status |-> 201]>>
  /\ outcome[1].kind = "response"
  /\ ~outcome[1].response.bodyUsed

(* C6: when the first k attempts answer a status >= 500 and attempt k+1 a
   2xx status, k <= retryCount, doFetch returns the decoded payload of
   attempt k+1 after exactly k+1 transport invocations and exactly k delays
   of 500 ms, each delay lying between a failed response and the next
   transport invocation. *)
C6_RetryThenSuccess ==
  \A c \in Calls :
    /\ transportCalls[c] >= 1 => delays[c] = transportCalls[c] - 1
    /\ pc[c] = "delay" =>
         /\ Len(hist[c]) = transportCalls[c]
         /\ IsResponse(LastAnswer(c)) /\ ~Ok(LastAnswer(c).status)
    /\ (/\ Done(c)
        /\ IsResponse(LastAnswer(c)) /\ Ok(LastAnswer(c).status)
        /\ \A i \in 1..(Len(hist[c]) - 1) : IsResponse(hist[c][i]) /\ hist[c][i].status >= 500)
       => LET k == Len(hist[c]) - 1
              r == response[c]
          IN /\ k <= Args(c).retryCount
             /\ transportCalls[c] = k + 1
             /\ delays[c] = k
             /\ waited[c] = 500 * k
             /\ r.id = k + 1
             /\ (Args(c).parse /\ Args(c).json /\ r.streamOk /\ r.text = BodyJson) =>
                  /\ outcome[c].kind = "payload"
                  /\ outcome[c].value.type = "object"
                  /\ outcome[c].value.fields = {<<"name", "bug">>, <<"active", "true">>}
             /\ (Args(c).parse /\ ~Args(c).json /\ r.streamOk) =>
                  /\ outcome[c].kind = "payload"
                  /\ outcome[c].value = [type |-> "string", text |-> r.text, fields |-> {}]

C6_Witness ==
  /\ Done(1)
  /\ Args(1).method = "POST"
  /\ Args(1).retryCount = 2
  /\ hist[1] = <<[kind |-> "response", status |-> 500], [kind |-> "response", status |-> 500],
                 [kind |-> "response", status |-> 201]>>
  /\ transportCalls[1] = 3
  /\ waited[1] = 1000
  /\ outcome[1].kind = "payload"
  /\ outcome[1].value.fields = {<<"name", "bug">>, <<"active", "true">>}

(* C7, as claimed: only 5xx failures are retried: a second or later
   transport invocation happens only after a response whose status is >= 500;
   a failed response with any other status is raised without a retry. *)
C7_Claimed_Only5xxRetried ==
  \A c \in Calls :
    \A i \in 1..Len(hist[c]) :
      (transportCalls[c] > i \/ (i = Len(hist[c]) /\ pc[c] = "delay"))
        => IsResponse(hist[c][i]) /\ hist[c][i].status >= 500

(* C8: every retry step calls doFetch again with retryCount decremented by
   exactly one and url, pat, method, headers, body, json and parse unchanged,
   after the fixed 500 ms delay; along one call chain the remaining retry
   count strictly decreases and never becomes negative. *)
C8_RetryStepFrame ==
  /\ [](\A c \in Calls :
          \A i \in 1..Len(frames[c]) :
            /\ frames[c][i].retryCount >= 0
            /\ i > 1 => frames[c][i].retryCount < frames[c][i - 1].retryCount)
  /\ [][\A c \in Calls :
          (Started(c) /\ Len(frames'[c]) > Len(frames[c])) =>
            /\ pc[c] = "delay"
            /\ frames'[c] = Append(frames[c], [Top(c) EXCEPT !.retryCount = @ - 1])
            /\ waited'[c] = waited[c] + 500
            /\ delays'[c] = delays[c] + 1
            /\ transportCalls'[c] = transportCalls[c] + 1
            /\ lastRequest'[c] = lastRequest[c]]_vars

C8_Witness ==
  /\ pc[1] = "awaitFetch"
  /\ Len(frames[1]) = 3
  /\ frames[1][1].retryCount = 2
  /\ frames[1][3].retryCount = 0
  /\ frames[1][1].headers # NoHeaders
  /\ ~frames[1][3].parse
  /\ waited[1] = 1000

CaseInsensitive(name) == Lower(name)

ComputedHeaders == {"authorization", "accept", "content-type"}

(* C9, as claimed: every header name/value the caller passes in headers,
   also a caller-supplied Authorization, Accept or Content-Type, is present
   with the caller's value in the request that is sent. *)
C9_Claimed_CallerHeadersWin ==
  \A c \in Calls :
    transportCalls[c] >= 1 =>
      \A k \in DOMAIN Top(c).headers :
        /\ CaseInsensitive(k) \in DOMAIN lastRequest[c].headers
        /\ lastRequest[c].headers[CaseInsensitive(k)] = Top(c).headers[k]

(* C9, amended: the headers sent are the caller's headers merged with
   Authorization, Accept and Content-Type: every caller header with another
   name is sent with the caller's value, and Authorization, Accept and
   Content-Type always carry the values computed from pat and json, also
   when the caller supplies them. *)
C9_CallerHeadersMerged ==
  \A c \in Calls :
    transportCalls[c] >= 1 =>
      LET sent == lastRequest[c].headers
          a == Top(c)
      IN /\ \A k \in DOMAIN a.headers :
              CaseInsensitive(k) \notin ComputedHeaders =>
                /\ CaseInsensitive(k) \in DOMAIN sent
                /\ sent[CaseInsensitive(k)] = a.headers[k]
         /\ ComputedHeaders \subseteq DOMAIN sent
         /\ sent["authorization"] = (IF a.pat = "" THEN <<"">> ELSE <<"Basic ", a.pat>>)
         /\ sent["accept"] = (IF a.json THEN <<"application/json">> ELSE <<"text/plain">>)
         /\ sent["content-type"] = sent["accept"]

C9_Witness ==
  /\ transportCalls[1] = 2
  /\ "Content-Type" \in DOMAIN Top(1).headers
  /\ lastRequest[1].headers["x-trace"] = <<"abc">>
  /\ lastRequest[1].headers["content-type"] = <<"application/json">>
  /\ lastRequest[1].headers["authorization"] = <<"Basic ", "OnRva2Vu">>

(* What one call, run alone, makes of its arguments a and of the answers h
   of its transport, the last of them the response r. *)
Retryable(h) == IsResponse(h) /\ ~Ok(h.status) /\ ~(h.status >= 400 /\ h.status < 500)

ExpectedOutcome(a, h, r) ==
  LET last == h[Len(h)]
  IN CASE last.kind = "throwError" ->
            [NoOutcome EXCEPT !.kind = "Error",
                              !.message = <<"Fetch for ", a.url, " failed: ", "fetch failed">>]
       [] last.kind = "throwOther" ->
            [NoOutcome EXCEPT !.kind = "thrown", !.message = <<"aborted">>]
       [] IsResponse(last) /\ ~Ok(last.status) ->
            [NoOutcome EXCEPT
               !.kind = "FetchError",
               !.response = r,
               !.message = <<"Fetch for ", a.url, " failed. Received status code ",
                             ToString(last.status), ". Body: ",
                             IF r.streamOk THEN r.text ELSE "undefined">>]
       [] IsResponse(last) /\ Ok(last.status) /\ ~a.parse ->
            [NoOutcome EXCEPT !.kind = "response", !.response = r]
       [] OTHER ->
            IF ~r.streamOk
            THEN [NoOutcome EXCEPT !.kind = "TypeError", !.message = <<"terminated">>]
            ELSE IF ~a.json
            THEN [NoOutcome EXCEPT !.kind = "payload",
                     !.value = [type |-> "string", text |-> r.text, fields |-> {}]]
            ELSE IF r.text = BodyJson
            THEN [NoOutcome EXCEPT !.kind = "payload",
                     !.value = [type |-> "object", text |-> "",
                                fields |-> {<<"name", "bug">>, <<"active", "true">>}]]
            ELSE [NoOutcome EXCEPT !.kind = "SyntaxError",
                                   !.message = <<"Unexpected token in JSON">>]

(* C10: concurrent calls are independent: in every interleaving each call's
   number of transport invocations, its remaining retry count and its
   outcome are those its own arguments and its own responses determine, and
   a call in its retry delay never keeps another call from its next step. *)
C10_CallsIndependent ==
  \A c \in Calls :
    /\ Started(c) =>
         /\ transportCalls[c] <= Args(c).retryCount + 1
         /\ Len(hist[c]) \in {transportCalls[c] - 1, transportCalls[c]}
         /\ \A i \in 1..(Len(hist[c]) - 1) : Retryable(hist[c][i])
         /\ pc[c] \in {"awaitFetch", "awaitErrText", "awaitDecode"} =>
              Top(c) = [Args(c) EXCEPT !.retryCount = @ - (transportCalls[c] - 1)]
         /\ pc[c] = "delay" =>
              /\ Retryable(LastAnswer(c))
              /\ Top(c).retryCount = Args(c).retryCount - (transportCalls[c] - 1)
              /\ Top(c).retryCount > 0
         /\ pc[c] = "settled" =>
              /\ outcome[c] = ExpectedOutcome(Args(c), hist[c], response[c])
              /\ Retryable(LastAnswer(c)) => transportCalls[c] = Args(c).retryCount + 1
    /\ \A d \in Calls \ {c} :
         (pc[c] = "delay" /\ Started(d) /\ ~Done(d)) => ENABLED Step(d)

C10_Witness ==
  /\ pc[1] = "delay"
  /\ Done(2)
  /\ transportCalls[2] = 2
  /\ outcome[2].kind = "payload"
  /\ Args(1).retryCount = 1 /\ Args(2).retryCount = MaxRetryConc
  /\ Args(1).parse # Args(2).parse

====
